---------------------------- MODULE Spec2Model ----------------------------
(***************************************************************************)
(* Model of the knowledge-graph service of Sumview                         *)
(* (src/app/services/graphrag_service.py, class GraphRAGService) and of    *)
(* the calls main.py makes into it.                                        *)
(*                                                                         *)
(* Strings are sequences of one-character strings, so .lower(), .strip()   *)
(* and the substring test `a in b` are computed, not assumed.  A           *)
(* confidence is an integer number of tenths (7 stands for 0.7).           *)
(***************************************************************************)
EXTENDS Integers, Sequences, FiniteSets, TLC

VARIABLES
    nodeOrder,   \* self.graph: node ids in insertion order
    nodeData,    \* self.graph: node id -> attribute record
    edgeOrder,   \* self.graph: <<source, target>> pairs in insertion order
    edgeData,    \* self.graph: <<source, target>> -> attribute record
    builds,      \* number of build_knowledge_graph calls made so far
    ret,         \* the last call into the service: its arguments and result
    entsIn,      \* argument of _deduplicate_entities under test
    relsIn,      \* argument of _deduplicate_relationships under test
    dd,          \* results of the deduplication calls under test
    pipeline,    \* the process_recording call in flight: its stage and locals
    loop         \* the event loop: the requests on it and the one that runs

vars ==
    <<nodeOrder, nodeData, edgeOrder, edgeData, builds, ret, entsIn, relsIn, dd,
      pipeline, loop>>

storeVars == <<nodeOrder, nodeData, edgeOrder, edgeData>>

-----------------------------------------------------------------------------
(* Strings *)

\* Python None where an Optional[int] recording id is expected
None == -1

Range(s) == {s[i] : i \in 1..Len(s)}

Min(a, b) == IF a <= b THEN a ELSE b

\* max(a, b) of two numbers
Max(a, b) == IF a >= b THEN a ELSE b

UpperChars == <<"A", "B", "D", "G", "L", "M">>

LowerChars == <<"a", "b", "d", "g", "l", "m">>

\* str.lower() on one character
LowerChar(c) ==
    IF \E i \in 1..Len(UpperChars) : UpperChars[i] = c
    THEN LowerChars[CHOOSE i \in 1..Len(UpperChars) : UpperChars[i] = c]
    ELSE c

\* str.lower()
Lower(s) == [i \in 1..Len(s) |-> LowerChar(s[i])]

IsSpace(c) == c = " "

\* str.strip(): drops leading and trailing whitespace
RECURSIVE LStrip(_)
LStrip(s) == IF s # <<>> /\ IsSpace(Head(s)) THEN LStrip(Tail(s)) ELSE s

RECURSIVE RStrip(_)
RStrip(s) ==
    IF s # <<>> /\ IsSpace(s[Len(s)]) THEN RStrip(SubSeq(s, 1, Len(s) - 1)) ELSE s

Strip(s) == RStrip(LStrip(s))

\* Python `a in b` on strings: a is a contiguous substring of b
IsSubstr(a, b) ==
    \E i \in 0..(Len(b) - Len(a)) : SubSeq(b, i + 1, i + Len(a)) = a

\* Python s[:n]
PrefixWhole(s, n) == s

Prefix(s, n) == SubSeq(s, 1, Min(n, Len(s)))

-----------------------------------------------------------------------------
(* Entity and relationship deduplication *)

\* key = entity["text"].lower().strip()
EntityKey(entity) == Strip(Lower(entity.text))

\* index of the record of entity_map that holds `key`, 0 when `key not in entity_map`
KeyIndex(entity_map, key) ==
    IF \E i \in 1..Len(entity_map) : EntityKey(entity_map[i]) = key
    THEN CHOOSE i \in 1..Len(entity_map) : EntityKey(entity_map[i]) = key
    ELSE 0

\* merged confidence score on a key collision
MergeConfidenceSum(existing, entity) == existing.confidence + entity.confidence

MergeConfidence(existing, entity) == Max(existing.confidence, entity.confidence)

\* label of the record on a key collision: OpenAI labels are preferred
MergeLabelIncoming(existing, entity) == entity.label

MergeLabel(existing, entity) ==
    IF entity.source = "openai" THEN entity.label ELSE existing.label

\* one iteration of the loop of _deduplicate_entities; entity_map is kept
\* as the sequence of its values in insertion order (dict order)
DedupStepAppend(entity_map, entity) ==
    LET i == KeyIndex(entity_map, EntityKey(entity)) IN
    IF i # 0
    THEN Append(entity_map,
                [entity_map[i] EXCEPT
                    !.confidence = MergeConfidence(entity_map[i], entity),
                    !.label = MergeLabel(entity_map[i], entity)])
    ELSE Append(entity_map, entity)

DedupStep(entity_map, entity) ==
    LET i == KeyIndex(entity_map, EntityKey(entity)) IN
    IF i # 0
    THEN [entity_map EXCEPT
            ![i] = [@ EXCEPT
                !.confidence = MergeConfidence(entity_map[i], entity),
                !.label = MergeLabel(entity_map[i], entity)]]
    ELSE Append(entity_map, entity)

RECURSIVE DedupLoop(_, _)
DedupLoop(entity_map, entities) ==
    IF entities = <<>> THEN entity_map
    ELSE DedupLoop(DedupStep(entity_map, Head(entities)), Tail(entities))

\* GraphRAGService._deduplicate_entities
_deduplicate_entities(entities) == DedupLoop(<<>>, entities)

\* key = (rel["source"].lower(), rel["target"].lower(), rel["relationship"])
RelKey(rel) == <<Lower(rel.source), Lower(rel.target), rel.relationship>>

RECURSIVE DedupRelLoop(_, _, _)
DedupRelLoop(seen, unique_rels, relationships) ==
    IF relationships = <<>> THEN unique_rels
    ELSE LET rel == Head(relationships) IN
         IF RelKey(rel) \notin seen
         THEN DedupRelLoop(seen \cup {RelKey(rel)}, Append(unique_rels, rel),
                           Tail(relationships))
         ELSE DedupRelLoop(seen, unique_rels, Tail(relationships))

\* GraphRAGService._deduplicate_relationships
_deduplicate_relationships(relationships) == DedupRelLoop({}, <<>>, relationships)

-----------------------------------------------------------------------------
(* Entity extraction *)

\* the record _extract_entities appends for a spaCy span (the start and end
\* offsets are carried by no later step and are left out)
SpacyEntity(ent) ==
    [text |-> ent.text, label |-> ent.label, confidence |-> 10, source |-> "spacy"]

\* entity.get("importance", 0.5)
Importance(item) == IF "importance" \in DOMAIN item THEN item.importance ELSE 5

\* the record _extract_entities_with_openai returns for an item of the reply
OpenAIEntity(item) ==
    [text |-> item.text, label |-> item.type, confidence |-> Importance(item),
     source |-> "openai"]

\* a JSON number met where the code expects a string (entity["text"],
\* rel["source"], rel["target"])
JsonNumber == <<"<number>">>

IsStr(v) == v # JsonNumber

\* a JSON string met where the code expects a number ("importance": "high")
JsonString == -2

IsNumber(c) == c # JsonString

\* entity["text"] and entity["type"] of the list comprehension: an item
\* without one of them raises KeyError inside the try block
EntityItemKeyed(item) == {"text", "type"} \subseteq DOMAIN item

\* GraphRAGService._extract_entities_with_openai: reply.ok is FALSE when the
\* completion call or json.loads raised, else reply.data is the parsed JSON;
\* an exception of the comprehension is caught as well and gives []
_extract_entities_with_openai(reply) ==
    IF ~reply.ok THEN <<>>
    ELSE IF \E i \in 1..Len(reply.data) : ~EntityItemKeyed(reply.data[i]) THEN <<>>
    ELSE [i \in 1..Len(reply.data) |-> OpenAIEntity(reply.data[i])]

\* the list `entities` of _extract_entities before deduplication: nlp.loaded
\* is FALSE when self.nlp is None, else nlp.ents is doc.ents for the text
CollectedEntities(nlp, reply) ==
    LET entities == IF nlp.loaded
                    THEN [i \in 1..Len(nlp.ents) |-> SpacyEntity(nlp.ents[i])]
                    ELSE <<>>
    IN entities \o _extract_entities_with_openai(reply)

\* _deduplicate_entities raises: AttributeError of .lower() on a text that is
\* no str, or TypeError of max() on a number and a str under one key
DedupRaises(entities) ==
    \/ \E i \in 1..Len(entities) : ~IsStr(entities[i].text)
    \/ \E i, j \in 1..Len(entities) :
          /\ EntityKey(entities[i]) = EntityKey(entities[j])
          /\ IsNumber(entities[i].confidence) # IsNumber(entities[j].confidence)

\* _extract_entities raises: nothing catches what _deduplicate_entities raises
ExtractEntitiesRaises(nlp, reply) == DedupRaises(CollectedEntities(nlp, reply))

\* GraphRAGService._extract_entities, when it returns
_extract_entities(nlp, reply) == _deduplicate_entities(CollectedEntities(nlp, reply))

-----------------------------------------------------------------------------
(* Relationship extraction *)

\* text.split('.')
RECURSIVE SplitLoop(_, _, _)
SplitLoop(text, current, parts) ==
    IF text = <<>> THEN Append(parts, current)
    ELSE IF Head(text) = "."
         THEN SplitLoop(Tail(text), <<>>, Append(parts, current))
         ELSE SplitLoop(Tail(text), Append(current, Head(text)), parts)

Split(text) == SplitLoop(text, <<>>, <<>>)

\* [e for e in entity_texts if e.lower() in sentence.lower()]
SentenceEntitiesCaseSensitive(entity_texts, sentence) ==
    SelectSeq(entity_texts, LAMBDA e : IsSubstr(e, sentence))

SentenceEntities(entity_texts, sentence) ==
    SelectSeq(entity_texts, LAMBDA e : IsSubstr(Lower(e), Lower(sentence)))

CoRel(entity1, entity2, sentence) ==
    [source |-> entity1, target |-> entity2, relationship |-> "mentioned_together",
     confidence |-> 7, context |-> Strip(sentence)]

\* for i, entity1 in enumerate(sentence_entities):
\*     for entity2 in sentence_entities[i+1:]
RECURSIVE PairLoop(_, _, _, _)
PairLoop(sentence_entities, sentence, i, j) ==
    IF i > Len(sentence_entities) THEN <<>>
    ELSE IF j > Len(sentence_entities)
         THEN PairLoop(sentence_entities, sentence, i + 1, i + 2)
         ELSE <<CoRel(sentence_entities[i], sentence_entities[j], sentence)>>
              \o PairLoop(sentence_entities, sentence, i, j + 1)

RECURSIVE SentenceLoop(_, _)
SentenceLoop(entity_texts, sentences) ==
    IF sentences = <<>> THEN <<>>
    ELSE PairLoop(SentenceEntities(entity_texts, Head(sentences)), Head(sentences), 1, 2)
         \o SentenceLoop(entity_texts, Tail(sentences))

\* GraphRAGService._extract_relationships_with_openai: no call is made for
\* fewer than 2 entities; `reply` as for the entities
_extract_relationships_with_openai(entities, reply) ==
    IF Len(entities) < 2 THEN <<>>
    ELSE IF ~reply.ok THEN <<>> ELSE reply.data

\* the list `relationships` of _extract_relationships before deduplication
CollectedRelationships(text, entities, reply) ==
    LET entity_texts == [i \in 1..Len(entities) |-> entities[i].text]
    IN SentenceLoop(entity_texts, Split(text))
       \o _extract_relationships_with_openai(entity_texts, reply)

\* the parsed reply is a JSON array.  NonListReply stands for a reply that
\* parses to a number, null, a boolean, a non-empty object or a non-empty
\* string: relationships.extend() raises TypeError on it, or appends the keys
\* or characters, on which rel["source"] raises TypeError
IsListReply(reply) == "data" \in DOMAIN reply

\* the remote call of _extract_relationships_with_openai is made
RemoteCalled(entities) == ~(Len(entities) < 2)

\* rel["source"].lower(), rel["target"].lower(), rel["relationship"] of the
\* key of _deduplicate_relationships: KeyError on a missing key,
\* AttributeError on a source or target that is no str
RelKeyed(rel) ==
    /\ {"source", "target", "relationship"} \subseteq DOMAIN rel
    /\ IsStr(rel.source)
    /\ IsStr(rel.target)

\* _extract_relationships raises: the reply of the relationship call is
\* returned as parsed, and nothing catches what _deduplicate_relationships
\* raises on it
ExtractRelationshipsRaises(text, entities, reply) ==
    IF RemoteCalled(entities) /\ reply.ok /\ ~IsListReply(reply) THEN TRUE
    ELSE LET relationships == CollectedRelationships(text, entities, reply)
         IN \E i \in 1..Len(relationships) : ~RelKeyed(relationships[i])

\* GraphRAGService._extract_relationships, when it returns
_extract_relationships(text, entities, reply) ==
    _deduplicate_relationships(CollectedRelationships(text, entities, reply))

-----------------------------------------------------------------------------
(* Graph fragment *)

DigitChars == <<"0", "1", "2", "3", "4", "5", "6", "7", "8", "9">>

\* str(n) for a one-digit n
Str(n) == <<DigitChars[n + 1]>>

\* f"keypoint_{recording_id}_{i}"
KeypointId(recording_id, i) ==
    <<"k", "e", "y", "p", "o", "i", "n", "t", "_">> \o Str(recording_id) \o <<"_">> \o Str(i)

\* key-point labels longer than this are cut and get an ellipsis
KeyPointLabelLen == 50

\* point[:50] + "..." if len(point) > 50 else point
KeypointLabel(point) ==
    IF Len(point) > KeyPointLabelLen
    THEN Prefix(point, KeyPointLabelLen) \o <<".", ".", ".">>
    ELSE point

EntityNode(recording_id, entity) ==
    [id |-> entity.text, label |-> entity.text, type |-> entity.label,
     confidence |-> entity.confidence, recording_id |-> recording_id]

\* enumerate(key_points) counts from 0
KeypointNode(recording_id, key_points, i) ==
    [id |-> KeypointId(recording_id, i - 1), label |-> KeypointLabel(key_points[i]),
     type |-> "KEY_POINT", confidence |-> 10, recording_id |-> recording_id,
     full_text |-> key_points[i]]

FragmentEdge(recording_id, rel) ==
    [source |-> rel.source, target |-> rel.target, relationship |-> rel.relationship,
     confidence |-> rel.confidence, recording_id |-> recording_id]

\* _build_graph_structure raises: KeyError of rel["confidence"] on a
\* relationship of the reply that carries none
BuildGraphStructureRaises(relationships) ==
    \E i \in 1..Len(relationships) : "confidence" \notin DOMAIN relationships[i]

\* GraphRAGService._build_graph_structure
_build_graph_structure(recording_id, entities, relationships, key_points) ==
    [nodes |-> [i \in 1..Len(entities) |-> EntityNode(recording_id, entities[i])]
               \o [i \in 1..Len(key_points) |-> KeypointNode(recording_id, key_points, i)],
     edges |-> [i \in 1..Len(relationships) |-> FragmentEdge(recording_id, relationships[i])],
     recording_id |-> recording_id]

-----------------------------------------------------------------------------
(* Graph store: what nx.DiGraph keeps.  A graph value is a record           *)
(* [nodeOrder, nodeData, edgeOrder, edgeData].                              *)

\* f with x mapped to v (x may be new)
Put(f, x, v) == [y \in DOMAIN f \cup {x} |-> IF y = x THEN v ELSE f[y]]

\* nx.DiGraph.has_node
has_node(g, n) == n \in DOMAIN g.nodeData

\* nx.DiGraph.has_edge
has_edge(g, u, v) == <<u, v>> \in DOMAIN g.edgeData

\* nx.DiGraph.add_node(id, **attrs): a new id goes last, a known id keeps
\* its place and gets the attributes written over
add_node_appending(g, node, recording_id) ==
    [g EXCEPT
        !.nodeOrder = Append(@, node.id),
        !.nodeData = Put(@, node.id,
                         [label |-> node.label, type |-> node.type,
                          confidence |-> node.confidence,
                          recording_id |-> recording_id])]

add_node(g, node, recording_id) ==
    [g EXCEPT
        !.nodeOrder = IF has_node(g, node.id) THEN @ ELSE Append(@, node.id),
        !.nodeData = Put(@, node.id,
                         [label |-> node.label, type |-> node.type,
                          confidence |-> node.confidence,
                          recording_id |-> recording_id])]

\* nx.DiGraph keeps one edge per ordered pair (source, target)
EdgeSlot(edge) == <<edge.source, edge.target>>

\* nx.DiGraph.add_edge(u, v, **attrs): a new pair goes last, a known pair
\* keeps its place and gets the attributes written over
add_edge(g, edge, recording_id) ==
    [g EXCEPT
        !.edgeOrder = IF EdgeSlot(edge) \in DOMAIN g.edgeData THEN @
                      ELSE Append(@, EdgeSlot(edge)),
        !.edgeData = Put(@, EdgeSlot(edge),
                         [relationship |-> edge.relationship,
                          confidence |-> edge.confidence,
                          recording_id |-> recording_id])]

RECURSIVE AddNodes(_, _, _)
AddNodes(g, nodes, recording_id) ==
    IF nodes = <<>> THEN g
    ELSE AddNodes(add_node(g, Head(nodes), recording_id), Tail(nodes), recording_id)

\* the guard of the edge loop of _add_to_networkx_graph
EdgeAdmittedUnguarded(g, edge) == TRUE

EdgeAdmitted(g, edge) == has_node(g, edge.source) /\ has_node(g, edge.target)

RECURSIVE AddEdges(_, _, _)
AddEdges(g, edges, recording_id) ==
    IF edges = <<>> THEN g
    ELSE AddEdges(IF EdgeAdmitted(g, Head(edges))
                  THEN add_edge(g, Head(edges), recording_id)
                  ELSE g,
                  Tail(edges), recording_id)

\* a DiGraph without nodes and edges
EmptyGraph == [nodeOrder |-> <<>>, nodeData |-> <<>>, edgeOrder |-> <<>>, edgeData |-> <<>>]

\* GraphRAGService._add_to_networkx_graph
_add_to_networkx_graph_replacing(g, recording_id, graph_data) ==
    AddEdges(AddNodes(EmptyGraph, graph_data.nodes, recording_id), graph_data.edges,
             recording_id)

_add_to_networkx_graph(g, recording_id, graph_data) ==
    AddEdges(AddNodes(g, graph_data.nodes, recording_id), graph_data.edges, recording_id)

\* self.graph
TheGraph ==
    [nodeOrder |-> nodeOrder, nodeData |-> nodeData,
     edgeOrder |-> edgeOrder, edgeData |-> edgeData]

-----------------------------------------------------------------------------
(* Queries *)

\* Python truth value of an Optional[int]: None and 0 are false
Truthy(recording_id) == recording_id # None /\ recording_id # 0

\* successors of u in adjacency (edge insertion) order
SuccessorsUndirected(g, u) ==
    LET out == SelectSeq(g.edgeOrder, LAMBDA e : e[1] = u \/ e[2] = u)
    IN [i \in 1..Len(out) |-> IF out[i][1] = u THEN out[i][2] ELSE out[i][1]]

Successors(g, u) ==
    LET out == SelectSeq(g.edgeOrder, LAMBDA e : e[1] = u)
    IN [i \in 1..Len(out) |-> out[i][2]]

\* breadth-first search over a queue of paths; <<>> stands for NetworkXNoPath
RECURSIVE BFS(_, _, _, _)
BFS(g, queue, visited, target) ==
    IF queue = <<>> THEN <<>>
    ELSE LET path == Head(queue)
             u == path[Len(path)]
             fresh == SelectSeq(Successors(g, u), LAMBDA v : v \notin visited)
         IN IF u = target THEN path
            ELSE BFS(g, Tail(queue) \o [i \in 1..Len(fresh) |-> Append(path, fresh[i])],
                     visited \cup Range(fresh), target)

\* nx.shortest_path(self.graph, source, target), unweighted
shortest_path(g, source, target) == BFS(g, <<<<source>>>>, {source}, target)

\* any(term in node_label for term in query_terms) or
\* any(node_label in term for term in query_terms)
LabelMatchesOneWay(node_label, query_terms) ==
    \E i \in 1..Len(query_terms) : IsSubstr(query_terms[i], node_label)

LabelMatches(node_label, query_terms) ==
    \/ \E i \in 1..Len(query_terms) : IsSubstr(query_terms[i], node_label)
    \/ \E i \in 1..Len(query_terms) : IsSubstr(node_label, query_terms[i])

\* the node loop of query_knowledge_graph
RelevantNodes(g, query_terms, recording_id) ==
    LET hit(n) ==
            /\ ~(Truthy(recording_id) /\ g.nodeData[n].recording_id # recording_id)
            /\ LabelMatches(Lower(g.nodeData[n].label), query_terms)
        ids == SelectSeq(g.nodeOrder, hit)
    IN [i \in 1..Len(ids) |->
            [id |-> ids[i], label |-> g.nodeData[ids[i]].label,
             type |-> g.nodeData[ids[i]].type,
             confidence |-> g.nodeData[ids[i]].confidence]]

\* the inner loop of the pair loop of query_knowledge_graph: j from its
\* start to the last matched node, for one i; a pair without a path
\* (NetworkXNoPath) is skipped
RECURSIVE PathRow(_, _, _, _)
PathRow(g, relevant_nodes, i, j) ==
    IF j > Len(relevant_nodes) THEN <<>>
    ELSE LET path == shortest_path(g, relevant_nodes[i].id, relevant_nodes[j].id)
         IN (IF path = <<>> THEN <<>> ELSE <<path>>)
            \o PathRow(g, relevant_nodes, i, j + 1)

\* the pair loop of query_knowledge_graph: i < j over the matched nodes
RECURSIVE PathLoop(_, _, _, _)
PathLoop(g, relevant_nodes, i, j) ==
    IF i > Len(relevant_nodes) THEN <<>>
    ELSE PathRow(g, relevant_nodes, i, j) \o PathLoop(g, relevant_nodes, i + 1, i + 2)

\* GraphRAGService._get_related_concepts
_get_related_concepts_outgoing(g, query_terms) ==
    LET connected(n) ==
            \E i \in 1..Len(query_terms) :
                /\ has_node(g, query_terms[i])
                /\ has_edge(g, query_terms[i], n)
        ids == SelectSeq(g.nodeOrder, connected)
    IN [i \in 1..Len(ids) |->
            [concept |-> g.nodeData[ids[i]].label, type |-> g.nodeData[ids[i]].type,
             connection |-> "direct"]]

_get_related_concepts(g, query_terms) ==
    LET connected(n) ==
            \E i \in 1..Len(query_terms) :
                /\ has_node(g, query_terms[i])
                /\ (has_edge(g, query_terms[i], n) \/ has_edge(g, n, query_terms[i]))
        ids == SelectSeq(g.nodeOrder, connected)
    IN [i \in 1..Len(ids) |->
            [concept |-> g.nodeData[ids[i]].label, type |-> g.nodeData[ids[i]].type,
             connection |-> "direct"]]

\* result caps of query_knowledge_graph
MaxRelevantNodes == 10

MaxPaths == 5

MaxRelatedConcepts == 10

\* GraphRAGService.query_knowledge_graph, on the entities extracted from the
\* query text; `matched`, `all_paths` and `all_related` are the locals
\* relevant_nodes, paths and related_concepts before the caps
query_knowledge_graph(g, query_entities, recording_id) ==
    LET query_terms == [i \in 1..Len(query_entities) |-> Lower(query_entities[i].text)]
        relevant_nodes == RelevantNodes(g, query_terms, recording_id)
        paths == IF Len(relevant_nodes) > 1 THEN PathLoop(g, relevant_nodes, 1, 2) ELSE <<>>
        related_concepts == _get_related_concepts(g, query_terms)
    IN [query_terms |-> query_terms,
        matched |-> relevant_nodes,
        all_paths |-> paths,
        all_related |-> related_concepts,
        result |->
            [relevant_nodes |-> Prefix(relevant_nodes, MaxRelevantNodes),
             paths |-> Prefix(paths, MaxPaths),
             related_concepts |-> Prefix(related_concepts, MaxRelatedConcepts),
             graph_stats |-> [total_nodes |-> Len(g.nodeOrder),
                              total_edges |-> Len(g.edgeOrder)]]]

\* Counter(values): value -> number of occurrences, for the values that occur
Counter(values) ==
    [v \in Range(values) |-> Cardinality({i \in 1..Len(values) : values[i] = v})]

\* `if recording_id:` of get_graph_summary
SummaryFilter(recording_id) == Truthy(recording_id)

\* the `nodes` list of get_graph_summary, as node ids
SummaryNodes(g, recording_id) ==
    IF SummaryFilter(recording_id)
    THEN SelectSeq(g.nodeOrder, LAMBDA n : g.nodeData[n].recording_id = recording_id)
    ELSE g.nodeOrder

\* the `edges` list of get_graph_summary, as (source, target) pairs
SummaryEdges(g, recording_id) ==
    IF SummaryFilter(recording_id)
    THEN SelectSeq(g.edgeOrder, LAMBDA e : g.edgeData[e].recording_id = recording_id)
    ELSE g.edgeOrder

\* GraphRAGService.get_graph_summary
get_graph_summary(g, recording_id) ==
    LET nodes == SummaryNodes(g, recording_id)
        edges == SummaryEdges(g, recording_id)
    IN [total_entities |-> Len(nodes),
        total_relationships |-> Len(edges),
        entity_types |-> Counter([i \in 1..Len(nodes) |-> g.nodeData[nodes[i]].type]),
        relationship_types |->
            Counter([i \in 1..Len(edges) |-> g.edgeData[edges[i]].relationship]),
        recordings_covered |->
            Cardinality({g.nodeData[nodes[i]].recording_id : i \in 1..Len(nodes)}
                        \ {None, 0})]

-----------------------------------------------------------------------------
(* Bounds and input universes of the deduplication specification *)

\* longest entity / relationship list handed to the deduplicators
MaxLen == 3

Ada == <<"A", "d", "a">>

ada == <<"a", "d", "a">>

AdaPadded == <<" ", "a", "d", "a", " ">>

Graph == <<"G", "r", "a", "p", "h">>

DedupTexts == {Ada, AdaPadded, Graph}

DedupLabels == {"PERSON", "CONCEPT"}

DedupConfidences == {3, 9}

Sources == {"spacy", "openai"}

\* entity records as _extract_entities / _extract_entities_with_openai make them
EntityUniverse ==
    [text : DedupTexts, label : DedupLabels, confidence : DedupConfidences,
     source : Sources]

\* sources that differ in surrounding whitespace, targets that differ in
\* letter case
RelUniverse ==
    [source : {Ada, AdaPadded}, target : {Graph, Lower(Graph)},
     relationship : {"discusses", "depends_on"}, confidence : DedupConfidences]

SeqsUpTo(S, n) == UNION {[1..k -> S] : k \in 0..n}

-----------------------------------------------------------------------------
(* Specification SpecDedup: the two deduplicators applied, and applied     *)
(* again to their own result, for every bounded input list                 *)

EmptyStore ==
    /\ nodeOrder = <<>>
    /\ nodeData = <<>>
    /\ edgeOrder = <<>>
    /\ edgeData = <<>>
    /\ builds = 0
    /\ ret = [op |-> "none"]
    /\ pipeline = [stage |-> "none"]

\* no request is on the event loop
NoLoop == [running |-> "nobody"]

DedupInit ==
    /\ EmptyStore
    /\ loop = NoLoop
    /\ \/ /\ entsIn \in SeqsUpTo(EntityUniverse, MaxLen)
          /\ relsIn = <<>>
          /\ dd = [op |-> "init", kind |-> "entities"]
       \/ /\ entsIn = <<>>
          /\ relsIn \in SeqsUpTo(RelUniverse, MaxLen)
          /\ dd = [op |-> "init", kind |-> "relationships"]

CallDedupEntities ==
    /\ dd.op = "init" /\ dd.kind = "entities"
    /\ dd' = [op |-> "entities", once |-> _deduplicate_entities(entsIn)]
    /\ UNCHANGED <<storeVars, builds, ret, entsIn, relsIn, pipeline, loop>>

CallDedupEntitiesAgain ==
    /\ dd.op = "entities"
    /\ dd' = [op |-> "entities2", once |-> dd.once,
              twice |-> _deduplicate_entities(dd.once)]
    /\ UNCHANGED <<storeVars, builds, ret, entsIn, relsIn, pipeline, loop>>

CallDedupRelationships ==
    /\ dd.op = "init" /\ dd.kind = "relationships"
    /\ dd' = [op |-> "relationships", once |-> _deduplicate_relationships(relsIn)]
    /\ UNCHANGED <<storeVars, builds, ret, entsIn, relsIn, pipeline, loop>>

CallDedupRelationshipsAgain ==
    /\ dd.op = "relationships"
    /\ dd' = [op |-> "relationships2", once |-> dd.once,
              twice |-> _deduplicate_relationships(dd.once)]
    /\ UNCHANGED <<storeVars, builds, ret, entsIn, relsIn, pipeline, loop>>

DedupNext ==
    \/ CallDedupEntities
    \/ CallDedupEntitiesAgain
    \/ CallDedupRelationships
    \/ CallDedupRelationshipsAgain

SpecDedup == DedupInit /\ [][DedupNext]_vars

-----------------------------------------------------------------------------
(* Inputs of the service specification *)

\* build_knowledge_graph calls in one behaviour
MaxBuilds == 2

ML == <<"M", "L">>

\* recording ids: 0 is the placeholder process_recording builds with first
RecordingIds == {0, 1, 2}

\* "Ada. Graph. ML": no two entities share a sentence
TrApart ==
    <<"A", "d", "a", ".", " ", "G", "r", "a", "p", "h", ".", " ", "M", "L">>

\* "Ada Graph.": both entities in one sentence
TrTogether == <<"A", "d", "a", " ", "G", "r", "a", "p", "h", ".">>

KpShort == <<"a", "d", "a", " ", "l", "e", "d">>

\* a key point of 51 characters
KpLong == [i \in 1..51 |-> IF i = 1 THEN "M" ELSE IF i = 2 THEN "L" ELSE "x"]

NoNlp == [loaded |-> FALSE]

Nlp(ents) == [loaded |-> TRUE, ents |-> ents]

Failed == [ok |-> FALSE]

Reply(data) == [ok |-> TRUE, data |-> data]

Span(text, label) == [text |-> text, label |-> label]

Rel(source, target, relationship, confidence) ==
    [source |-> source, target |-> target, relationship |-> relationship,
     confidence |-> confidence]

\* what one upload hands to build_knowledge_graph, with what the two
\* extractors answer for it
Upload(transcript, key_points, nlp, entity_reply, relationship_reply) ==
    [transcript |-> transcript, summary |-> <<>>, key_points |-> key_points,
     nlp |-> nlp, entity_reply |-> entity_reply,
     relationship_reply |-> relationship_reply]

\* "a0" .. "a9"
Filler(k) == <<"a", DigitChars[k + 1]>>

\* twelve entities whose labels all hold an "a": "a", "a0" .. "a9", "Graph"
WideSpans ==
    <<Span(<<"a">>, "CONCEPT")>>
    \o [k \in 1..10 |-> Span(Filler(k - 1), "CONCEPT")]
    \o <<Span(Graph, "CONCEPT")>>

\* "a0" .. "a8" each point at "a"; "a" points at "a9" and at "Graph"
WideRels ==
    [k \in 1..9 |-> Rel(Filler(k - 1), <<"a">>, "part_of", 9)]
    \o <<Rel(<<"a">>, Filler(9), "leads", 9), Rel(<<"a">>, Graph, "discusses", 9)>>

Uploads ==
    { Upload(TrApart, <<>>, Nlp(<<Span(Ada, "PERSON")>>),
             Reply(<<[text |-> Graph, type |-> "CONCEPT", importance |-> 9]>>),
             Reply(<<Rel(Ada, Graph, "discusses", 9)>>)),
      Upload(TrTogether, <<KpShort, KpLong>>, Nlp(<<Span(Ada, "PERSON")>>),
             Reply(<<[text |-> Graph, type |-> "CONCEPT"]>>),
             Reply(<<Rel(Ada, Graph, "discusses", 9), Rel(Ada, Graph, "depends_on", 3),
                     Rel(Graph, Ada, "discusses", 3)>>)),
      Upload(TrApart, <<>>, NoNlp,
             Reply(<<[text |-> ada, type |-> "ORG"],
                     [text |-> Graph, type |-> "ORG", importance |-> 3]>>),
             Reply(<<Rel(ada, Graph, "leads", 9), Rel(Ada, Graph, "discusses", 3)>>)),
      Upload(TrApart, <<>>,
             Nlp(<<Span(Ada, "PERSON"), Span(Graph, "CONCEPT"), Span(ML, "ORG")>>),
             Failed,
             Reply(<<Rel(Ada, Graph, "discusses", 9), Rel(Graph, ML, "leads", 9)>>)),
      Upload(TrApart, <<KpShort>>, Nlp(<<Span(ML, "ORG"), Span(Ada, "ORG")>>),
             Reply(<<[text |-> AdaPadded, type |-> "PERSON", importance |-> 3]>>),
             Reply(<<Rel(Ada, ML, "depends_on", 9), Rel(Graph, Ada, "part_of", 3)>>)),
      Upload(TrApart, <<>>, Nlp(WideSpans), Failed, Reply(WideRels)),
      Upload(TrApart, <<KpShort>>, Nlp(<<Span(Ada, "PERSON")>>),
             Reply(<<[text |-> JsonNumber, type |-> "CONCEPT"]>>),
             Reply(<<Rel(Ada, Graph, "discusses", 9)>>)),
      Upload(TrApart, <<>>, Nlp(<<Span(Ada, "PERSON"), Span(Graph, "CONCEPT")>>), Failed,
             Reply(<<Rel(Ada, Graph, "discusses", 9),
                     [source |-> Ada, target |-> Graph, relationship |-> "leads"]>>)),
      Upload(TrApart, <<>>, Nlp(<<Span(Ada, "PERSON"), Span(Graph, "CONCEPT")>>), Failed,
             Reply(<<Rel(JsonNumber, Graph, "discusses", 9)>>)) }

\* the uploads followed through both builds of process_recording: those
\* whose summary came with key points
PipelineUploads == {u \in Uploads : u.key_points # <<>>}

\* what the two extractors answer for a query text
Question(nlp, entity_reply) == [nlp |-> nlp, entity_reply |-> entity_reply]

Questions ==
    { Question(Nlp(<<>>), Failed),
      Question(Nlp(<<Span(Ada, "PERSON")>>), Reply(<<>>)),
      Question(Nlp(<<Span(Ada, "PERSON"), Span(ML, "ORG")>>), Failed),
      Question(NoNlp, Reply(<<[text |-> <<"a">>, type |-> "CONCEPT"]>>)),
      Question(NoNlp, Reply(<<[text |-> KpShort \o <<" ">> \o Graph, type |-> "ACTION"]>>)),
      Question(Nlp(<<Span(Ada, "PERSON")>>),
               Reply(<<[text |-> JsonNumber, type |-> "CONCEPT"]>>)),
      Question(Nlp(<<Span(Ada, "PERSON")>>), Reply(<<[text |-> Graph]>>)),
      Question(Nlp(<<Span(Ada, "PERSON")>>),
               Reply(<<[text |-> ada, type |-> "PERSON", importance |-> JsonString]>>)) }

\* recording_id argument of a query or a summary
RecordingArgs == {None} \cup RecordingIds

-----------------------------------------------------------------------------
(* Specification Spec: the service under builds, queries and summaries *)

Init ==
    /\ EmptyStore
    /\ loop = NoLoop
    /\ entsIn = <<>>
    /\ relsIn = <<>>
    /\ dd = [op |-> "init", kind |-> "none"]

\* the try block of build_knowledge_graph on graph g: whether a step raised,
\* the graph it leaves and, when it ran through, the value it returns.  Every
\* step that can raise comes before _add_to_networkx_graph.
BuildOutcomePartial(g, recording_id, u) ==
    IF ExtractEntitiesRaises(u.nlp, u.entity_reply)
    THEN [raised |-> TRUE, graph |-> g]
    ELSE
    LET entities == _extract_entities(u.nlp, u.entity_reply) IN
    IF ExtractRelationshipsRaises(u.transcript, entities, u.relationship_reply)
    THEN [raised |-> TRUE, graph |-> g]
    ELSE
    LET relationships ==
            _extract_relationships(u.transcript, entities, u.relationship_reply)
    IN
    IF BuildGraphStructureRaises(relationships)
    THEN [raised |-> TRUE,
          graph |-> AddNodes(g, [i \in 1..Len(entities) |->
                                    EntityNode(recording_id, entities[i])], recording_id)]
    ELSE
    LET graph_data ==
            _build_graph_structure(recording_id, entities, relationships, u.key_points)
    IN [raised |-> FALSE,
        graph |-> _add_to_networkx_graph(g, recording_id, graph_data),
        result |-> [entities |-> Len(entities),
                    relationships |-> Len(relationships),
                    graph_data |-> graph_data]]

BuildOutcome(g, recording_id, u) ==
    IF ExtractEntitiesRaises(u.nlp, u.entity_reply)
    THEN [raised |-> TRUE, graph |-> g]
    ELSE
    LET entities == _extract_entities(u.nlp, u.entity_reply) IN
    IF ExtractRelationshipsRaises(u.transcript, entities, u.relationship_reply)
    THEN [raised |-> TRUE, graph |-> g]
    ELSE
    LET relationships ==
            _extract_relationships(u.transcript, entities, u.relationship_reply)
    IN
    IF BuildGraphStructureRaises(relationships)
    THEN [raised |-> TRUE, graph |-> g]
    ELSE
    LET graph_data ==
            _build_graph_structure(recording_id, entities, relationships, u.key_points)
    IN [raised |-> FALSE,
        graph |-> _add_to_networkx_graph(g, recording_id, graph_data),
        result |-> [entities |-> Len(entities),
                    relationships |-> Len(relationships),
                    graph_data |-> graph_data]]

\* {"entities": 0, "relationships": 0, "graph_data": {}}
BuildDegraded == [entities |-> 0, relationships |-> 0, graph_data |-> <<>>]

\* `except Exception` of build_knowledge_graph: what the caller gets, and
\* whether the exception escaped to it
BuildExceptReraise(b) ==
    [escaped |-> b.raised, result |-> IF b.raised THEN BuildDegraded ELSE b.result]

BuildExcept(b) ==
    [escaped |-> FALSE, result |-> IF b.raised THEN BuildDegraded ELSE b.result]

\* no call is being answered
Idle == ret.op = "none"

\* GraphRAGService.build_knowledge_graph
build_knowledge_graph(recording_id, u) ==
    /\ Idle
    /\ builds < MaxBuilds
    /\ \E b \in {BuildOutcome(TheGraph, recording_id, u)} :
          /\ nodeOrder' = b.graph.nodeOrder
          /\ nodeData' = b.graph.nodeData
          /\ edgeOrder' = b.graph.edgeOrder
          /\ edgeData' = b.graph.edgeData
          /\ ret' = [op |-> "build", recording_id |-> recording_id,
                     raised |-> b.raised, escaped |-> BuildExcept(b).escaped,
                     result |-> BuildExcept(b).result]
    /\ builds' = builds + 1
    /\ UNCHANGED <<entsIn, relsIn, dd, loop>>

\* a build for any recording id, as another upload in flight makes it
Build ==
    /\ \E recording_id \in RecordingIds, u \in Uploads :
          build_knowledge_graph(recording_id, u)
    /\ UNCHANGED pipeline

\* process_recording, step 4: the build under the placeholder id 0
ProcessRecordingBuild ==
    /\ pipeline.stage = "none"
    /\ \E u \in PipelineUploads :
          /\ build_knowledge_graph(0, u)
          /\ pipeline' = [stage |-> "built", u |-> u, graph_result |-> ret'.result]

\* process_recording after db.commit(): the build under recording.id, on the
\* same transcript, summary and key points
ProcessRecordingRebuild ==
    /\ pipeline.stage = "built"
    /\ \E id \in RecordingIds \ {0} :
          /\ build_knowledge_graph(id, pipeline.u)
          /\ pipeline' = [stage |-> "done", u |-> pipeline.u,
                          graph_result |-> pipeline.graph_result, id |-> id]

\* the try block of query_knowledge_graph for a query text whose extractor
\* answers are q: the locals query_terms, relevant_nodes (matched), paths
\* (all_paths) and related_concepts (all_related) are left empty when
\* _extract_entities raised before them
QueryOutcome(g, q, recording_id) ==
    IF ExtractEntitiesRaises(q.nlp, q.entity_reply)
    THEN [raised |-> TRUE, query_terms |-> <<>>, matched |-> <<>>, all_paths |-> <<>>,
          all_related |-> <<>>]
    ELSE LET r == query_knowledge_graph(g, _extract_entities(q.nlp, q.entity_reply),
                                        recording_id)
         IN [raised |-> FALSE, query_terms |-> r.query_terms, matched |-> r.matched,
             all_paths |-> r.all_paths, all_related |-> r.all_related,
             result |-> r.result]

\* {"relevant_nodes": [], "paths": [], "related_concepts": []}
QueryEmpty == [relevant_nodes |-> <<>>, paths |-> <<>>, related_concepts |-> <<>>]

\* `except Exception` of query_knowledge_graph
QueryExceptReraise(b) ==
    [escaped |-> b.raised, result |-> IF b.raised THEN QueryEmpty ELSE b.result]

QueryExcept(b) ==
    [escaped |-> FALSE, result |-> IF b.raised THEN QueryEmpty ELSE b.result]

QueryAddingTerms ==
    /\ Idle
    /\ \E q \in Questions, recording_id \in RecordingArgs :
        \E b \in {QueryOutcome(TheGraph, q, recording_id)} :
        \E g \in {AddNodes(TheGraph,
                            [i \in 1..Len(b.query_terms) |->
                                [id |-> b.query_terms[i], label |-> b.query_terms[i],
                                 type |-> "QUERY", confidence |-> 10]], None)} :
            /\ ret' = [op |-> "query", recording_id |-> recording_id,
                       raised |-> b.raised, escaped |-> QueryExcept(b).escaped,
                       query_terms |-> b.query_terms, matched |-> b.matched,
                       all_paths |-> b.all_paths, all_related |-> b.all_related,
                       result |-> QueryExcept(b).result]
            /\ nodeOrder' = g.nodeOrder
            /\ nodeData' = g.nodeData
    /\ UNCHANGED <<edgeOrder, edgeData, builds, entsIn, relsIn, dd, pipeline, loop>>

Query ==
    /\ Idle
    /\ \E q \in Questions, recording_id \in RecordingArgs :
        \E b \in {QueryOutcome(TheGraph, q, recording_id)} :
            ret' = [op |-> "query", recording_id |-> recording_id,
                    raised |-> b.raised, escaped |-> QueryExcept(b).escaped,
                    query_terms |-> b.query_terms, matched |-> b.matched,
                    all_paths |-> b.all_paths, all_related |-> b.all_related,
                    result |-> QueryExcept(b).result]
    /\ UNCHANGED <<storeVars, builds, entsIn, relsIn, dd, pipeline, loop>>

Summary ==
    /\ Idle
    /\ \E recording_id \in RecordingArgs :
        ret' = [op |-> "summary", recording_id |-> recording_id,
                result |-> get_graph_summary(TheGraph, recording_id)]
    /\ UNCHANGED <<storeVars, builds, entsIn, relsIn, dd, pipeline, loop>>

\* the endpoint hands the result to its caller (process_recording goes on
\* after its first build and returns after its second); the service takes
\* the next call
Respond ==
    /\ ~Idle
    /\ ret' = [op |-> "none"]
    /\ pipeline' = IF pipeline.stage = "done" THEN [stage |-> "none"] ELSE pipeline
    /\ UNCHANGED <<storeVars, builds, entsIn, relsIn, dd, loop>>

Next ==
    \/ Build
    \/ ProcessRecordingBuild
    \/ ProcessRecordingRebuild
    \/ Query
    \/ Summary
    \/ Respond

Spec == Init /\ [][Next]_vars

-----------------------------------------------------------------------------
(* Specification SpecExtract: _extract_relationships applied to a text, a   *)
(* deduplicated entity list and an answer of the remote call                *)

\* "ml ADA. Graph ada. Ada ML Graph": entities in another letter case, pairs
\* that share two sentences, three entities in one sentence
TrMixed ==
    <<"m", "l", " ", "A", "D", "A", ".", " ", "G", "r", "a", "p", "h", " ", "a", "d", "a",
      ".", " ", "A", "d", "a", " ", "M", "L", " ", "G", "r", "a", "p", "h">>

ExtractTexts == {<<>>, TrApart, TrTogether, TrMixed}

\* entity lists as _extract_entities returns them: deduplicated
ExtractEntityLists ==
    {_deduplicate_entities(entities) :
        entities \in SeqsUpTo([text : {Ada, AdaPadded, Graph, ML}, label : {"CONCEPT"},
                               confidence : {9}, source : {"spacy"}], MaxLen)}

NonListReply == [ok |-> TRUE]

ExtractReplies ==
    { Failed,
      NonListReply,
      Reply(<<>>),
      Reply(<<Rel(Ada, Graph, "discusses", 9), Rel(Graph, Ada, "mentioned_together", 3)>>),
      Reply(<<[source |-> Ada, target |-> Graph, relationship |-> "leads"]>>),
      Reply(<<[target |-> Graph, relationship |-> "leads", confidence |-> 9]>>),
      Reply(<<[source |-> Ada, relationship |-> "leads", confidence |-> 9]>>),
      Reply(<<[source |-> Ada, target |-> Graph, confidence |-> 9]>>),
      Reply(<<Rel(Ada, JsonNumber, "discusses", 9)>>) }

ExtractInit ==
    /\ EmptyStore
    /\ loop = NoLoop
    /\ relsIn = <<>>
    /\ entsIn \in ExtractEntityLists
    /\ dd \in [op : {"init"}, kind : {"extract"}, text : ExtractTexts,
                reply : ExtractReplies]

\* GraphRAGService._extract_relationships(text, entities): whether the remote
\* call was made, the co-occurrence relationships of the sentence loop,
\* whether the call raised and, when it returned, its result
CallExtractRelationships ==
    /\ dd.op = "init" /\ dd.kind = "extract"
    /\ \E raised \in {ExtractRelationshipsRaises(dd.text, entsIn, dd.reply)} :
        dd' = [op |-> "extracted", text |-> dd.text, reply |-> dd.reply,
               called |-> RemoteCalled(entsIn),
               cooccurrence |->
                    SentenceLoop([i \in 1..Len(entsIn) |-> entsIn[i].text], Split(dd.text)),
               raised |-> raised,
               result |-> IF raised THEN <<>>
                          ELSE _extract_relationships(dd.text, entsIn, dd.reply)]
    /\ UNCHANGED <<storeVars, builds, ret, entsIn, relsIn, pipeline, loop>>

ExtractNext == CallExtractRelationships

SpecExtract == ExtractInit /\ [][ExtractNext]_vars

-----------------------------------------------------------------------------
(* Specification SpecAsync: two uploads and one query as coroutines on the  *)
(* one event loop of the application.  Every endpoint of main.py is an      *)
(* `async def`, so a request runs until it reaches an await and only then   *)
(* another one is resumed.  The merge of a fragment and the scan and path   *)
(* search of a query are taken apart into the single writes and reads they  *)
(* make, so that an interleaving would show.                                *)

Uploaders == {"upload1", "upload2"}

Asker == "query"

Tasks == Uploaders \cup {Asker}

\* recording.id after db.commit(): one per upload
recording_id_of(t) == IF t = "upload1" THEN 1 ELSE 2

\* uploads with at most two spaCy entities and one key point
AsyncUploads ==
    {u \in Uploads : /\ u.nlp.loaded /\ Len(u.nlp.ents) <= 2
                     /\ Len(u.key_points) <= 1 /\ u.entity_reply.ok}

\* questions whose remote answer is one item with text and type
AsyncQuestions ==
    {q \in Questions : /\ q.entity_reply.ok /\ Len(q.entity_reply.data) = 1
                       /\ DOMAIN q.entity_reply.data[1] = {"text", "type"}}

AsyncInit ==
    /\ EmptyStore
    /\ entsIn = <<>>
    /\ relsIn = <<>>
    /\ dd = [op |-> "init", kind |-> "none"]
    /\ \E u1, u2 \in AsyncUploads, q \in AsyncQuestions :
        loop = [running |-> "nobody",
                log |-> <<>>,
                task |-> [t \in Tasks |->
                            IF t = Asker THEN [pc |-> "extract", q |-> q]
                            ELSE [pc |-> "extract0",
                                  u |-> IF t = "upload1" THEN u1 ELSE u2]]]

\* the event loop resumes a request only when no other one is running:
\* a coroutine is left at an await and nowhere else
RunnablePreempted(t) == TRUE

Runnable(t) == loop.running \in {"nobody", t}

SetGraph(g) ==
    /\ nodeOrder' = g.nodeOrder
    /\ nodeData' = g.nodeData
    /\ edgeOrder' = g.edgeOrder
    /\ edgeData' = g.edgeData

\* the position process_recording is suspended at after a build: the awaits
\* between its two builds, or its return
AfterBuild(pc) == IF pc \in {"extract0", "merge0"} THEN "between" ELSE "done"

\* build_knowledge_graph is resumed from the awaits of the two extractors
\* (lines 38-39) and runs on without an await: _build_graph_structure and
\* the entry into _add_to_networkx_graph; when a step raised it returns the
\* degraded result and process_recording goes on to its next await
EnterBuild(t) ==
    /\ Runnable(t)
    /\ loop.task[t].pc \in {"extract0", "between"}
    /\ \E recording_id \in {IF loop.task[t].pc = "extract0" THEN 0 ELSE recording_id_of(t)} :
       \E b \in {BuildOutcome(TheGraph, recording_id, loop.task[t].u)} :
          loop' = IF b.raised
                  THEN [loop EXCEPT !.running = "nobody",
                                    !.task[t] = [pc |-> AfterBuild(loop.task[t].pc),
                                                 u |-> loop.task[t].u]]
                  ELSE [loop EXCEPT !.running = t,
                                    !.task[t] =
                                        [pc |-> IF loop.task[t].pc = "extract0"
                                                THEN "merge0" ELSE "merge1",
                                         u |-> loop.task[t].u,
                                         recording_id |-> recording_id,
                                         base |-> TheGraph,
                                         graph_data |-> b.result.graph_data,
                                         nodes |-> 0, edges |-> 0]]
    /\ UNCHANGED <<storeVars, builds, ret, entsIn, relsIn, dd, pipeline>>

Merging(t) == loop.task[t].pc \in {"merge0", "merge1"}

\* one pass of the node loop of _add_to_networkx_graph
MergeNode(t) ==
    /\ Runnable(t)
    /\ Merging(t)
    /\ loop.task[t].nodes < Len(loop.task[t].graph_data.nodes)
    /\ SetGraph(add_node(TheGraph,
                         loop.task[t].graph_data.nodes[loop.task[t].nodes + 1],
                         loop.task[t].recording_id))
    /\ loop' = [loop EXCEPT !.running = t, !.task[t].nodes = @ + 1]
    /\ UNCHANGED <<builds, ret, entsIn, relsIn, dd, pipeline>>

\* one pass of the edge loop of _add_to_networkx_graph
MergeEdge(t) ==
    /\ Runnable(t)
    /\ Merging(t)
    /\ loop.task[t].nodes = Len(loop.task[t].graph_data.nodes)
    /\ loop.task[t].edges < Len(loop.task[t].graph_data.edges)
    /\ \E edge \in {loop.task[t].graph_data.edges[loop.task[t].edges + 1]} :
          SetGraph(IF EdgeAdmitted(TheGraph, edge)
                   THEN add_edge(TheGraph, edge, loop.task[t].recording_id)
                   ELSE TheGraph)
    /\ loop' = [loop EXCEPT !.running = t, !.task[t].edges = @ + 1]
    /\ UNCHANGED <<builds, ret, entsIn, relsIn, dd, pipeline>>

\* _add_to_networkx_graph and build_knowledge_graph return;
\* process_recording reaches the awaits after its first build
\* (main.py:129-148) or returns after its second
FinishMerge(t) ==
    /\ Runnable(t)
    /\ Merging(t)
    /\ loop.task[t].nodes = Len(loop.task[t].graph_data.nodes)
    /\ loop.task[t].edges = Len(loop.task[t].graph_data.edges)
    /\ loop' = [loop EXCEPT
                    !.running = "nobody",
                    !.log = Append(@, [task |-> t,
                                       recording_id |-> loop.task[t].recording_id,
                                       graph_data |-> loop.task[t].graph_data]),
                    !.task[t] = [pc |-> AfterBuild(loop.task[t].pc),
                                 u |-> loop.task[t].u]]
    /\ UNCHANGED <<storeVars, builds, ret, entsIn, relsIn, dd, pipeline>>

\* query_knowledge_graph(query, None) is resumed from the await of
\* _extract_entities (line 291) and runs the node loop (lines 292-308)
QueryScan ==
    /\ Runnable(Asker)
    /\ loop.task[Asker].pc = "extract"
    /\ \E q \in {loop.task[Asker].q} :
        loop' =
            IF ExtractEntitiesRaises(q.nlp, q.entity_reply)
            THEN [loop EXCEPT !.running = "nobody",
                              !.task[Asker] = [pc |-> "done", q |-> q, raised |-> TRUE,
                                               result |-> QueryEmpty]]
            ELSE LET query_entities == _extract_entities(q.nlp, q.entity_reply)
                     query_terms == [i \in 1..Len(query_entities) |->
                                        Lower(query_entities[i].text)]
                 IN [loop EXCEPT !.running = Asker,
                                 !.task[Asker] =
                                    [pc |-> "paths", q |-> q, snap |-> TheGraph,
                                     query_terms |-> query_terms,
                                     relevant_nodes |->
                                        RelevantNodes(TheGraph, query_terms, None)]]
    /\ UNCHANGED <<storeVars, builds, ret, entsIn, relsIn, dd, pipeline>>

\* the pair loop, _get_related_concepts and the return of
\* query_knowledge_graph (lines 310-336)
QueryPaths ==
    /\ Runnable(Asker)
    /\ loop.task[Asker].pc = "paths"
    /\ \E relevant_nodes \in {loop.task[Asker].relevant_nodes} :
       \E paths \in {IF Len(relevant_nodes) > 1
                      THEN PathLoop(TheGraph, relevant_nodes, 1, 2) ELSE <<>>} :
       \E related_concepts \in {_get_related_concepts(TheGraph,
                                                       loop.task[Asker].query_terms)} :
        loop' = [loop EXCEPT
                    !.running = "nobody",
                    !.task[Asker] =
                        [pc |-> "done", q |-> loop.task[Asker].q, raised |-> FALSE,
                         snap |-> loop.task[Asker].snap,
                         result |->
                            [relevant_nodes |-> Prefix(relevant_nodes, MaxRelevantNodes),
                             paths |-> Prefix(paths, MaxPaths),
                             related_concepts |->
                                Prefix(related_concepts, MaxRelatedConcepts),
                             graph_stats |-> [total_nodes |-> Len(nodeOrder),
                                              total_edges |-> Len(edgeOrder)]]]]
    /\ UNCHANGED <<storeVars, builds, ret, entsIn, relsIn, dd, pipeline>>

AsyncNext ==
    \/ \E t \in Uploaders : EnterBuild(t)
    \/ \E t \in Uploaders : MergeNode(t)
    \/ \E t \in Uploaders : MergeEdge(t)
    \/ \E t \in Uploaders : FinishMerge(t)
    \/ QueryScan
    \/ QueryPaths

SpecAsync == AsyncInit /\ [][AsyncNext]_vars

-----------------------------------------------------------------------------
(* Claims on deduplication *)

\* C1: deduplication is idempotent: deduplicating the result of
\* _deduplicate_entities again returns the same list of records (same text,
\* label, confidence and source, same order), and likewise for
\* _deduplicate_relationships.
C1_DedupIdempotent ==
    /\ dd.op = "entities2" => dd.twice = dd.once
    /\ dd.op = "relationships2" => dd.twice = dd.once

\* the second pass ran on a result that came out of real merging
C1_Witness ==
    /\ dd.op = "entities2"
    /\ Len(entsIn) = 3
    /\ Len(dd.once) = 2
    /\ dd.once[1].confidence = 9 /\ entsIn[1].confidence = 3
    /\ dd.once[1].label # entsIn[1].label

\* the records of the input list that have identity key k
WithKey(entities, k) == {i \in 1..Len(entities) : EntityKey(entities[i]) = k}

SetMax(S) == CHOOSE m \in S : \A x \in S : x <= m

SetMin(S) == CHOOSE m \in S : \A x \in S : m <= x

\* C2: for every identity key of the input, the result holds exactly one
\* entity of that key and its confidence is the maximum confidence of the
\* input entities of that key; every arrival order is an input of its own.
C2_ConfidenceIsMax ==
    dd.op = "entities" =>
        \A i \in 1..Len(entsIn) :
            LET k == EntityKey(entsIn[i])
                out == WithKey(dd.once, k)
            IN /\ Cardinality(out) = 1
               /\ \A o \in out :
                    dd.once[o].confidence =
                        SetMax({entsIn[j].confidence : j \in WithKey(entsIn, k)})

\* 0.9 arrives first and 0.3 second under one key, and a third record of the
\* same key follows: the maximum is neither the last value nor a sum
C2_Witness ==
    /\ dd.op = "entities"
    /\ Len(entsIn) = 3
    /\ entsIn[1].confidence = 9 /\ entsIn[2].confidence = 3 /\ entsIn[3].confidence = 3
    /\ entsIn[1].text = Ada /\ entsIn[2].text = AdaPadded /\ entsIn[3].text = Ada
    /\ Len(dd.once) = 1
    /\ dd.once[1].confidence = 9

\* C3: one spaCy entity with label L1 and one OpenAI entity with label L2
\* under the same identity key deduplicate to one entity with label L2 in
\* both arrival orders; a key no OpenAI entity carries keeps the label of its
\* first-seen entity.
C3_LabelPrecedence ==
    dd.op = "entities" =>
        /\ (/\ Len(entsIn) = 2
            /\ EntityKey(entsIn[1]) = EntityKey(entsIn[2])
            /\ {entsIn[1].source, entsIn[2].source} = Sources)
           => /\ Len(dd.once) = 1
              /\ \A i \in 1..2 :
                    entsIn[i].source = "openai" => dd.once[1].label = entsIn[i].label
        /\ \A i \in 1..Len(entsIn) :
            LET k == EntityKey(entsIn[i])
                group == WithKey(entsIn, k)
            IN (\A j \in group : entsIn[j].source # "openai")
               => \A o \in WithKey(dd.once, k) :
                    dd.once[o].label = entsIn[SetMin(group)].label

\* the OpenAI entity arrives first, the spaCy entity of another label second
C3_Witness ==
    /\ dd.op = "entities"
    /\ Len(entsIn) = 2
    /\ entsIn[1].source = "openai" /\ entsIn[2].source = "spacy"
    /\ entsIn[1].text = AdaPadded /\ entsIn[2].text = Ada
    /\ entsIn[1].label = "CONCEPT" /\ entsIn[2].label = "PERSON"
    /\ Len(dd.once) = 1
    /\ dd.once[1].label = "CONCEPT"

-----------------------------------------------------------------------------
(* Claims on the graph store *)

FragmentNodeIds(graph_data) ==
    {graph_data.nodes[i].id : i \in 1..Len(graph_data.nodes)}

\* C4: every edge of the store has its source and its target among the
\* store nodes, and a build changes the store by exactly the nodes of its
\* fragment and those fragment edges whose two endpoints are store nodes
\* once the fragment's nodes are in: an edge with a missing endpoint adds
\* neither an edge nor a node.
C4_EdgeEndpoints ==
    [][/\ \A e \in Range(edgeOrder') :
            e[1] \in DOMAIN nodeData' /\ e[2] \in DOMAIN nodeData'
       /\ (ret'.op = "build" /\ ~ret'.raised) =>
            LET graph_data == ret'.result.graph_data
                known == DOMAIN nodeData \cup FragmentNodeIds(graph_data)
                admitted ==
                    {<<graph_data.edges[i].source, graph_data.edges[i].target>> :
                        i \in {j \in 1..Len(graph_data.edges) :
                                  /\ graph_data.edges[j].source \in known
                                  /\ graph_data.edges[j].target \in known}}
            IN /\ DOMAIN nodeData' = known
               /\ Range(edgeOrder') = Range(edgeOrder) \cup admitted
               /\ DOMAIN edgeData' = Range(edgeOrder')
               /\ Len(edgeOrder') = Cardinality(Range(edgeOrder'))]_vars

\* a build merged a fragment holding the edge Ada -> Graph while "Ada" was
\* no store node: the edge was dropped, the other edge of the fragment kept
C4_Witness ==
    /\ ret.op = "build"
    /\ ~ret.raised
    /\ \E i \in 1..Len(ret.result.graph_data.edges) :
          /\ ret.result.graph_data.edges[i].source = Ada
          /\ ret.result.graph_data.edges[i].target = Graph
    /\ Ada \notin DOMAIN nodeData
    /\ Graph \in DOMAIN nodeData
    /\ edgeOrder = <<<<ada, Graph>>>>

\* C5: every fragment edge whose endpoints are store nodes is held by the
\* store after the merge under its own relationship type, so that A -> B
\* "discusses" and A -> B "depends_on" are two store edges.
C5_ParallelEdgesKept ==
    (ret.op = "build" /\ ~ret.raised) =>
        \A i \in 1..Len(ret.result.graph_data.edges) :
            LET edge == ret.result.graph_data.edges[i] IN
            (edge.source \in DOMAIN nodeData /\ edge.target \in DOMAIN nodeData)
            => \E e \in DOMAIN edgeData :
                  /\ e[1] = edge.source
                  /\ e[2] = edge.target
                  /\ edgeData[e].relationship = edge.relationship

-----------------------------------------------------------------------------
(* Claims on queries *)

\* nodes reachable from x along at most k directed store edges
RECURSIVE ReachWithin(_, _)
ReachWithin(x, k) ==
    IF k = 0 THEN {x}
    ELSE LET near == ReachWithin(x, k - 1)
         IN near \cup {e[2] : e \in {d \in DOMAIN edgeData : d[1] \in near}}

\* the nodes reachable from the set S along directed store edges
RECURSIVE ReachClosure(_)
ReachClosure(S) ==
    LET next == S \cup {e[2] : e \in {d \in DOMAIN edgeData : d[1] \in S}}
    IN IF next = S THEN S ELSE ReachClosure(next)

\* for every node of S, the nodes reachable from it along directed edges
ReachableFrom(S) == [x \in S |-> ReachClosure({x})]

IsDirectedPath(p) ==
    /\ Len(p) >= 1
    /\ \A k \in 1..(Len(p) - 1) : <<p[k], p[k + 1]>> \in DOMAIN edgeData

\* C6: the paths a query finds are, pair by pair of matched nodes (X before
\* Y in scan order), a directed path from X to Y of minimum edge count when
\* Y can be reached from X along directed edges and nothing otherwise; the
\* returned paths are among them.  With the edges Ada -> Graph -> ML only,
\* the path from Ada to ML is [Ada, Graph, ML] and none leads from ML to Ada.
C6_ShortestDirectedPaths ==
    ret.op = "query" =>
        \A ids \in {[i \in 1..Len(ret.matched) |-> ret.matched[i].id]} :
        \A reach \in {ReachableFrom(Range(ids))} :
        \A ends \in {{<<ret.all_paths[k][1], ret.all_paths[k][Len(ret.all_paths[k])]>> :
                        k \in 1..Len(ret.all_paths)}} :
           /\ \A k \in 1..Len(ret.all_paths) :
                \A p \in {ret.all_paths[k]} :
                    /\ IsDirectedPath(p)
                    /\ \E i \in 1..Len(ids) : \E j \in (i + 1)..Len(ids) :
                            p[1] = ids[i] /\ p[Len(p)] = ids[j]
                    /\ Len(p) >= 2 => p[Len(p)] \notin ReachWithin(p[1], Len(p) - 2)
           /\ \A i \in 1..Len(ids) : \A j \in (i + 1)..Len(ids) :
                ids[j] \in reach[ids[i]] <=> <<ids[i], ids[j]>> \in ends
           /\ 2 * Len(ret.all_paths) <= Len(ids) * (Len(ids) - 1)
           /\ Range(ret.result.paths) \subseteq Range(ret.all_paths)
           /\ (/\ DOMAIN edgeData = {<<Ada, Graph>>, <<Graph, ML>>}
               /\ Range(ids) = {Ada, ML})
              => ret.all_paths = IF ids = <<Ada, ML>> THEN <<<<Ada, Graph, ML>>>> ELSE <<>>

\* Ada, Graph, ML were inserted in this order and chained; the query matched
\* Ada and ML and returned the path through Graph
C6_Witness ==
    /\ ret.op = "query"
    /\ DOMAIN edgeData = {<<Ada, Graph>>, <<Graph, ML>>}
    /\ nodeOrder = <<Ada, Graph, ML>>
    /\ ret.query_terms = <<ada, Lower(ML)>>
    /\ ret.result.paths = <<<<Ada, Graph, ML>>>>

\* C7: a store node in the scope of the query (no recording id is given, or
\* the node is tagged with the given one) is matched exactly when some
\* lower-cased query term is a substring of the node's lower-cased label or
\* that label is a substring of some term; a node tagged with another
\* recording than a given non-zero one is not matched, and without query
\* terms nothing matches.
C7_BidirectionalSubstring ==
    ret.op = "query" =>
        LET ids == {ret.matched[i].id : i \in 1..Len(ret.matched)}
            terms == Range(ret.query_terms)
            contains(n) ==
                \E t \in terms :
                    \/ IsSubstr(t, Lower(nodeData[n].label))
                    \/ IsSubstr(Lower(nodeData[n].label), t)
        IN /\ ids \subseteq DOMAIN nodeData
           /\ \A n \in DOMAIN nodeData :
                IF ret.recording_id = None \/ nodeData[n].recording_id = ret.recording_id
                THEN n \in ids <=> contains(n)
                ELSE ret.recording_id # 0 => n \notin ids
           /\ \A t \in terms : t = Lower(t)
           /\ terms = {} => ret.matched = <<>>

\* the term "ada led graph" matched the nodes "Ada" and "Graph", whose
\* labels it contains, and did not match the node "ML"
C7_Witness ==
    /\ ret.op = "query"
    /\ ret.query_terms = <<Lower(KpShort \o <<" ">> \o Graph)>>
    /\ {Ada, Graph, ML} \subseteq DOMAIN nodeData
    /\ \E i \in 1..Len(ret.matched) : ret.matched[i].id = Ada
    /\ \E i \in 1..Len(ret.matched) : ret.matched[i].id = Graph
    /\ \A i \in 1..Len(ret.matched) : ret.matched[i].id # ML

\* C8: a query whose term is the lower-cased id of an entity node (of any
\* letter case) returns that node in relevant_nodes and the labels of its
\* direct neighbours in related_concepts; the query "Ada" after the build of
\* Ada -> Graph returns "Ada" and the related concept "Graph".
C8_NeighboursOfQueryEntity ==
    (ret.op = "query" /\ ret.recording_id = None) =>
        \A n \in DOMAIN nodeData :
            (\E i \in 1..Len(ret.query_terms) : ret.query_terms[i] = Lower(n))
            => /\ \E i \in 1..Len(ret.matched) : ret.matched[i].id = n
               /\ \A m \in DOMAIN nodeData :
                    (<<n, m>> \in DOMAIN edgeData \/ <<m, n>> \in DOMAIN edgeData)
                    => \E i \in 1..Len(ret.result.related_concepts) :
                          ret.result.related_concepts[i].concept = nodeData[m].label

-----------------------------------------------------------------------------
(* Claims on summaries *)

\* the histogram of the attribute values vals[x], x in S
Histogram(S, vals) ==
    [v \in {vals[x] : x \in S} |-> Cardinality({x \in S : vals[x] = v})]

\* C9: get_graph_summary(r) counts the store nodes tagged r and the store
\* edges tagged r, and its two histograms are those of the types of these
\* nodes and of the relationship labels of these edges.
C9_SummaryOfRecording ==
    (ret.op = "summary" /\ ret.recording_id # None) =>
        LET nodes == {n \in DOMAIN nodeData :
                        nodeData[n].recording_id = ret.recording_id}
            edges == {e \in DOMAIN edgeData :
                        edgeData[e].recording_id = ret.recording_id}
        IN /\ ret.result.total_entities = Cardinality(nodes)
           /\ ret.result.total_relationships = Cardinality(edges)
           /\ ret.result.entity_types =
                Histogram(nodes, [n \in nodes |-> nodeData[n].type])
           /\ ret.result.relationship_types =
                Histogram(edges, [e \in edges |-> edgeData[e].relationship])

\* C10: when a build for recording r2 brings an entity whose text is the id
\* of a node tagged with another recording r1, the store keeps one node of
\* that id, with the label, type, confidence and recording id of the r2
\* build, and get_graph_summary(r1) no longer counts it.
C10_LastWriteWins ==
    [][(ret'.op = "build" /\ ~ret'.raised) =>
        \A i \in 1..Len(ret'.result.graph_data.nodes) :
            LET node == ret'.result.graph_data.nodes[i]
                g == [nodeOrder |-> nodeOrder', nodeData |-> nodeData',
                      edgeOrder |-> edgeOrder', edgeData |-> edgeData']
            IN (/\ node.id \in DOMAIN nodeData
                /\ nodeData[node.id].recording_id # ret'.recording_id)
               => /\ Cardinality({k \in 1..Len(nodeOrder') : nodeOrder'[k] = node.id}) = 1
                  /\ nodeData'[node.id] =
                        [label |-> node.label, type |-> node.type,
                         confidence |-> node.confidence,
                         recording_id |-> ret'.recording_id]
                  /\ node.id \notin
                        Range(SummaryNodes(g, nodeData[node.id].recording_id))]_vars

-----------------------------------------------------------------------------
(* Claims on failures of the query *)

\* a Python list: a sequence of any length
IsList(v) == DOMAIN v = 1..Cardinality(DOMAIN v)

\* C11: query_knowledge_graph never lets an exception escape to its caller:
\* whatever the extractors answer, it returns a result whose relevant_nodes,
\* paths and related_concepts are lists, and when a step of its try block
\* raised the three lists are empty.
C11_QueryNeverRaises ==
    ret.op = "query" =>
        /\ ~ret.escaped
        /\ {"relevant_nodes", "paths", "related_concepts"} \subseteq DOMAIN ret.result
        /\ IsList(ret.result.relevant_nodes)
        /\ IsList(ret.result.paths)
        /\ IsList(ret.result.related_concepts)
        /\ ret.raised =>
            /\ ret.result.relevant_nodes = <<>>
            /\ ret.result.paths = <<>>
            /\ ret.result.related_concepts = <<>>

\* entity extraction raised inside a query on a store that holds the node
\* "Ada", and the caller got the three empty lists
C11_Witness ==
    /\ ret.op = "query"
    /\ ret.raised
    /\ ~ret.escaped
    /\ Ada \in DOMAIN nodeData
    /\ ret.result.relevant_nodes = <<>>
    /\ ret.result.paths = <<>>
    /\ ret.result.related_concepts = <<>>

\* C12: _extract_entities never raises, whatever the remote call answers
\* (an exception, unparsable text, or JSON of any shape such as an item whose
\* text is no string or whose importance is no number); seen at
\* query_knowledge_graph, whose try block raises through _extract_entities
\* only.
C12_ExtractionNeverRaises ==
    ret.op = "query" => ~ret.raised

\* C13: every result of query_knowledge_graph, with or without a recording
\* id and also after a caught exception, holds graph_stats with the node and
\* edge counts of the whole store.
C13_GraphStatsAlways ==
    ret.op = "query" =>
        /\ "graph_stats" \in DOMAIN ret.result
        /\ ret.result.graph_stats.total_nodes = Cardinality(DOMAIN nodeData)
        /\ ret.result.graph_stats.total_edges = Cardinality(DOMAIN edgeData)

-----------------------------------------------------------------------------
(* Claims on identity keys *)

\* lower-cased and trimmed
Normal(text) == Strip(Lower(text))

\* C14: identity keys are case-insensitive and whitespace-trimmed for
\* entities and for relationships: _deduplicate_entities returns no two
\* entities whose texts differ only in letter case or surrounding whitespace,
\* and _deduplicate_relationships returns no two relationships of one type
\* whose sources and whose targets differ only in that way.
C14_KeysIgnoreCaseAndSpace ==
    /\ dd.op = "entities" =>
        \A i, j \in 1..Len(dd.once) :
            Normal(dd.once[i].text) = Normal(dd.once[j].text) => i = j
    /\ dd.op = "relationships" =>
        \A i, j \in 1..Len(dd.once) :
            (/\ dd.once[i].relationship = dd.once[j].relationship
             /\ Normal(dd.once[i].source) = Normal(dd.once[j].source)
             /\ Normal(dd.once[i].target) = Normal(dd.once[j].target))
            => i = j

-----------------------------------------------------------------------------
(* Claims on the placeholder recording id *)

\* C15: get_graph_summary filters whenever a recording id is passed, the
\* placeholder id 0 included: it counts the nodes and edges tagged with the
\* passed id, and counts the whole store only when none is passed.
C15_SummaryFiltersWhenGiven ==
    ret.op = "summary" =>
        LET given == ret.recording_id # None
            nodes == {n \in DOMAIN nodeData :
                        given => nodeData[n].recording_id = ret.recording_id}
            edges == {e \in DOMAIN edgeData :
                        given => edgeData[e].recording_id = ret.recording_id}
        IN /\ ret.result.total_entities = Cardinality(nodes)
           /\ ret.result.total_relationships = Cardinality(edges)

\* C16: when process_recording has made its second build, under the real id
\* of the recording, every node and every edge its two builds put into the
\* store is tagged with the real id, and none of them is left tagged with
\* the placeholder id 0.
C16_PlaceholderCorrected ==
    (pipeline.stage = "done" /\ ret.op = "build" /\ ~ret.raised) =>
        LET first == pipeline.graph_result.graph_data
            second == ret.result.graph_data
            nodes == FragmentNodeIds(first) \cup FragmentNodeIds(second)
            edges == {<<second.edges[i].source, second.edges[i].target>> :
                        i \in 1..Len(second.edges)} \cap DOMAIN edgeData
        IN /\ \A n \in nodes :
                /\ n \in DOMAIN nodeData
                /\ nodeData[n].recording_id = pipeline.id
                /\ nodeData[n].recording_id # 0
           /\ \A e \in edges : edgeData[e].recording_id = pipeline.id

-----------------------------------------------------------------------------
(* Claims on the growth of the store *)

\* C17: the store only grows: no step of a build, a query or a summary
\* takes a node id or a (source, target) edge out of the store, so the node
\* and edge counts never decrease; queries and summaries leave the store as
\* it is.
C17_StoreOnlyGrows ==
    [][/\ DOMAIN nodeData \subseteq DOMAIN nodeData'
       /\ DOMAIN edgeData \subseteq DOMAIN edgeData'
       /\ Len(nodeOrder) <= Len(nodeOrder')
       /\ Len(edgeOrder) <= Len(edgeOrder')
       /\ Range(nodeOrder') = DOMAIN nodeData'
       /\ ret'.op \in {"query", "summary"} => UNCHANGED storeVars]_vars

\* a second build, for another recording, added nodes and an edge to a
\* store that still holds the node and the edge of the first
C17_Witness ==
    /\ ret.op = "build"
    /\ builds = 2
    /\ \E n, m \in DOMAIN nodeData : nodeData[n].recording_id # nodeData[m].recording_id
    /\ \E e, f \in DOMAIN edgeData : edgeData[e].recording_id # edgeData[f].recording_id

-----------------------------------------------------------------------------
(* Claims on failures of the build *)

\* C18: build_knowledge_graph never lets an exception escape to the upload
\* pipeline: it returns the entity count, the relationship count and the
\* fragment of a completed build, or, when a step raised, the degraded
\* result with the counts 0 and an empty graph_data.
C18_BuildNeverRaises ==
    ret.op = "build" =>
        /\ ~ret.escaped
        /\ DOMAIN ret.result = {"entities", "relationships", "graph_data"}
        /\ IF ret.raised
           THEN /\ ret.result.entities = 0
                /\ ret.result.relationships = 0
                /\ DOMAIN ret.result.graph_data = {}
           ELSE LET graph_data == ret.result.graph_data IN
                /\ DOMAIN graph_data = {"nodes", "edges", "recording_id"}
                /\ graph_data.recording_id = ret.recording_id
                /\ ret.result.relationships = Len(graph_data.edges)
                /\ ret.result.entities =
                        Cardinality({i \in 1..Len(graph_data.nodes) :
                                        graph_data.nodes[i].type # "KEY_POINT"})

\* a build in which a step raised returned the degraded result; the store
\* holds what the build before it merged
C18_Witness ==
    /\ ret.op = "build"
    /\ ret.raised
    /\ ~ret.escaped
    /\ builds = 2
    /\ ret.result = BuildDegraded
    /\ nodeOrder = <<Ada, Graph>>
    /\ edgeOrder = <<<<Ada, Graph>>>>

-----------------------------------------------------------------------------
(* Claims on the result caps of the query *)

\* position of x in the sequence s of distinct values
PosIn(s, x) == CHOOSE i \in 1..Len(s) : s[i] = x

\* C19: every returned path starts and ends at a node of the returned
\* relevant_nodes list.
C19_PathEndsReturned ==
    ret.op = "query" =>
        LET returned == {ret.result.relevant_nodes[i].id :
                            i \in 1..Len(ret.result.relevant_nodes)}
        IN \A k \in 1..Len(ret.result.paths) :
                LET p == ret.result.paths[k]
                IN p[1] \in returned /\ p[Len(p)] \in returned

\* C20: relevant_nodes holds at most 10 nodes, the first matches in node
\* insertion order; paths holds at most 5 paths, the first found when the
\* pairs i < j of the matched list are gone through in order, a pair without
\* a path being passed over; related_concepts holds at most 10 entries.
C20_ResultCaps ==
    ret.op = "query" =>
        \A ids \in {[i \in 1..Len(ret.matched) |-> ret.matched[i].id]} :
        \A reach \in {ReachableFrom(Range(ids))} :
        \A pair \in {[k \in 1..Len(ret.all_paths) |->
                        <<PosIn(ids, ret.all_paths[k][1]),
                          PosIn(ids, ret.all_paths[k][Len(ret.all_paths[k])])>>]} :
        \A found \in {{pr \in (1..Len(ids)) \X (1..Len(ids)) :
                        pr[1] < pr[2] /\ ids[pr[2]] \in reach[ids[pr[1]]]}} :
           /\ Len(ret.result.relevant_nodes) <= 10
           /\ Len(ret.result.relevant_nodes) = Min(10, Len(ret.matched))
           /\ \A i \in 1..Len(ret.result.relevant_nodes) :
                ret.result.relevant_nodes[i] = ret.matched[i]
           /\ \A i \in 1..(Len(ids) - 1) :
                PosIn(nodeOrder, ids[i]) < PosIn(nodeOrder, ids[i + 1])
           /\ Len(ret.result.paths) <= 5
           /\ Len(ret.result.paths) = Min(5, Len(ret.all_paths))
           /\ \A k \in 1..Len(ret.result.paths) : ret.result.paths[k] = ret.all_paths[k]
           /\ \A k \in 1..(Len(pair) - 1) :
                \/ pair[k][1] < pair[k + 1][1]
                \/ pair[k][1] = pair[k + 1][1] /\ pair[k][2] < pair[k + 1][2]
           /\ Len(ret.all_paths) = Cardinality(found)
           /\ Len(ret.result.related_concepts) <= 10

\* twelve nodes matched, twenty paths were found with pairs in between that
\* have none, and "a" has eleven neighbours: all three caps cut
C20_Witness ==
    /\ ret.op = "query"
    /\ Len(ret.matched) = 12
    /\ Len(ret.result.relevant_nodes) = 10
    /\ Len(ret.all_paths) = 20
    /\ Len(ret.result.paths) = 5
    /\ Cardinality({e \in DOMAIN edgeData : e[1] = <<"a">> \/ e[2] = <<"a">>}) = 11
    /\ Len(ret.result.related_concepts) = 10

-----------------------------------------------------------------------------
(* Claims on related concepts *)

\* the store nodes joined to node t by one edge, in either direction
Neighbours(t) ==
    {e[2] : e \in {d \in DOMAIN edgeData : d[1] = t}}
    \cup {e[1] : e \in {d \in DOMAIN edgeData : d[2] = t}}

\* C21: the related concepts before the cap are exactly the direct
\* neighbours of the query terms: a store node is listed if and only if some
\* query term is a store node id joined to it by an edge in either
\* direction; each such node is listed once, in node insertion order, and a
\* node that only a chain of two or more edges joins to a term is not listed.
C21_RelatedAreDirectNeighbours ==
    (ret.op = "query" /\ ~ret.raised) =>
        \A terms \in {Range(ret.query_terms) \cap DOMAIN nodeData} :
        \A direct \in {UNION {Neighbours(t) : t \in terms}} :
        \A ids \in {SelectSeq(nodeOrder, LAMBDA n : n \in direct)} :
           /\ Len(ret.all_related) = Cardinality(direct)
           /\ ret.all_related =
                [i \in 1..Len(ids) |->
                    [concept |-> nodeData[ids[i]].label, type |-> nodeData[ids[i]].type,
                     connection |-> "direct"]]
           /\ \A n \in DOMAIN nodeData :
                (/\ n \notin direct
                 /\ \E t \in terms : n \in ReachWithin(t, 2))
                => \A i \in 1..Len(ret.all_related) :
                      ret.all_related[i].concept # nodeData[n].label
                      \/ \E m \in direct : nodeData[m].label = nodeData[n].label
           /\ ret.result.related_concepts = Prefix(ret.all_related, MaxRelatedConcepts)

\* the term "ada" is the node "ada", whose edge leads to "Graph"; "ML" is
\* two edges away from it and is not listed; the node "Ada" is no term
C21_Witness ==
    /\ ret.op = "query"
    /\ ret.query_terms = <<ada>>
    /\ {<<ada, Graph>>, <<Graph, ML>>} \subseteq DOMAIN edgeData
    /\ Ada \in DOMAIN nodeData
    /\ Len(ret.all_related) = 1
    /\ ret.all_related[1].concept = Graph

\* the term "a" is a node with nine incoming and two outgoing edges: all
\* eleven neighbours are listed before the cap
C21_WitnessBothDirections ==
    /\ ret.op = "query"
    /\ ret.query_terms = <<<<"a">>>>
    /\ Cardinality({e \in DOMAIN edgeData : e[2] = <<"a">>}) = 9
    /\ Cardinality({e \in DOMAIN edgeData : e[1] = <<"a">>}) = 2
    /\ Len(ret.all_related) = 11

-----------------------------------------------------------------------------
(* Claims on relationship deduplication *)

\* identity key of a relationship: source key, target key (each lower-cased
\* and trimmed, as an entity key) and relationship type
IdentityKey(rel) == <<Normal(rel.source), Normal(rel.target), rel.relationship>>

\* the positions of the list that hold the first relationship of their key
FirstOfKey(relationships) ==
    {i \in 1..Len(relationships) :
        \A j \in 1..(i - 1) : IdentityKey(relationships[j]) # IdentityKey(relationships[i])}

\* the elements of s at the positions I, in the order of s
AtPositions(s, I) ==
    [k \in 1..Cardinality(I) |->
        s[CHOOSE i \in I : Cardinality({j \in I : j <= i}) = k]]

\* C22: _deduplicate_relationships returns, in input order, exactly the
\* first relationship of each identity key (source key, target key,
\* relationship type), as it came in: a later relationship of the same key
\* changes nothing, also when its confidence is higher, and relationships
\* that differ in direction or in type are all returned.
C22_FirstOccurrenceWins ==
    dd.op = "relationships" =>
        /\ dd.once = AtPositions(relsIn, FirstOfKey(relsIn))
        /\ \A i \in 1..Len(relsIn) :
                \E k \in 1..Len(dd.once) : IdentityKey(dd.once[k]) = IdentityKey(relsIn[i])

-----------------------------------------------------------------------------
(* Claims on relationship extraction *)

\* the text occurs in the sentence, letter case apart
OccursIn(text, sentence) == IsSubstr(Lower(text), Lower(sentence))

\* C23: the sentence loop of _extract_relationships produces, for each
\* period-delimited sentence and each pair of entities of the deduplicated
\* list whose texts both occur in it (letter case apart), exactly one
\* "mentioned_together" relationship with confidence 0.7 and the sentence as
\* context, directed from the entity earlier in the list to the later one,
\* and nothing else; it never produces both (A, B) and (B, A), and never a
\* relationship whose source is its target.
C23_CoOccurrencePairs ==
    dd.op = "extracted" =>
        \A texts \in {[i \in 1..Len(entsIn) |-> entsIn[i].text]} :
        \A sentences \in {Split(dd.text)} :
        \A due \in {{t \in (1..Len(sentences)) \X (1..Len(texts)) \X (1..Len(texts)) :
                        /\ t[2] < t[3]
                        /\ OccursIn(texts[t[2]], sentences[t[1]])
                        /\ OccursIn(texts[t[3]], sentences[t[1]])}} :
           /\ Len(dd.cooccurrence) = Cardinality(due)
           /\ \A t \in due :
                \E k \in 1..Len(dd.cooccurrence) :
                    dd.cooccurrence[k] =
                        [source |-> texts[t[2]], target |-> texts[t[3]],
                         relationship |-> "mentioned_together", confidence |-> 7,
                         context |-> Strip(sentences[t[1]])]
           /\ \A k \in 1..Len(dd.cooccurrence) :
                /\ \E t \in due :
                        /\ dd.cooccurrence[k].source = texts[t[2]]
                        /\ dd.cooccurrence[k].target = texts[t[3]]
                        /\ dd.cooccurrence[k].context = Strip(sentences[t[1]])
                /\ dd.cooccurrence[k].relationship = "mentioned_together"
                /\ dd.cooccurrence[k].confidence = 7
                /\ dd.cooccurrence[k].source # dd.cooccurrence[k].target
                /\ \A m \in 1..Len(dd.cooccurrence) :
                        ~(/\ dd.cooccurrence[m].source = dd.cooccurrence[k].target
                          /\ dd.cooccurrence[m].target = dd.cooccurrence[k].source)
           /\ \A k, m \in 1..Len(dd.cooccurrence) :
                (k < m /\ dd.cooccurrence[k].context = dd.cooccurrence[m].context
                       /\ Cardinality({n \in 1..Len(sentences) :
                                Strip(sentences[n]) = dd.cooccurrence[k].context}) = 1)
                => <<dd.cooccurrence[k].source, dd.cooccurrence[k].target>>
                    # <<dd.cooccurrence[m].source, dd.cooccurrence[m].target>>

\* "ml ADA. Graph ada. Ada ML Graph" with the entities Ada, Graph, ML: one
\* pair from each of the first two sentences, written in another letter case
\* than the entity, and three pairs from the third; Ada and Graph share two
\* sentences and are related once for each
C23_Witness ==
    /\ dd.op = "extracted"
    /\ dd.text = TrMixed
    /\ [i \in 1..Len(entsIn) |-> entsIn[i].text] = <<Ada, Graph, ML>>
    /\ Len(dd.cooccurrence) = 5
    /\ dd.cooccurrence[1].source = Ada /\ dd.cooccurrence[1].target = ML
    /\ Cardinality({k \in 1..5 : /\ dd.cooccurrence[k].source = Ada
                                  /\ dd.cooccurrence[k].target = Graph}) = 2

\* C25: _extract_relationships never raises: whatever the remote call
\* answers (a failure, text that does not parse, or parsed JSON of any shape)
\* it returns a list of relationships, the remote part being empty when the
\* answer is unusable; with fewer than 2 entities the remote call is not
\* made and the answer plays no part.
C25_RelationshipExtractionNeverRaises ==
    dd.op = "extracted" =>
        /\ ~dd.raised
        /\ IsList(dd.result)
        /\ Len(entsIn) < 2 =>
                /\ ~dd.called
                /\ dd.result = _deduplicate_relationships(dd.cooccurrence)
        /\ ~dd.reply.ok => dd.result = _deduplicate_relationships(dd.cooccurrence)

-----------------------------------------------------------------------------
(* Claims on the recordings a summary covers *)

\* C24: recordings_covered is the number of distinct recording ids among
\* the nodes the summary counts, in every store, also when nodes are tagged
\* with the placeholder id 0.
C24_RecordingsCovered ==
    ret.op = "summary" =>
        ret.result.recordings_covered =
            Cardinality({nodeData[n].recording_id :
                            n \in Range(SummaryNodes(TheGraph, ret.recording_id))})

-----------------------------------------------------------------------------
(* Claims on what a call leaves in the store *)

\* {"entities": 0, "relationships": 0, "graph_data": {}}
IsDegraded(result) ==
    /\ result.entities = 0
    /\ result.relationships = 0
    /\ DOMAIN result.graph_data = {}

\* C27: a build that returns the degraded result leaves the store as it
\* was before the call: node ids and their order, node attributes, edges and
\* edge attributes; no part of a fragment is merged.
C27_FailedBuildChangesNothing ==
    [][(ret'.op = "build" /\ IsDegraded(ret'.result)) => UNCHANGED storeVars]_vars

\* a build for recording 2 returned the degraded result; the store holds
\* exactly what the build before it, for recording 1, merged
C27_Witness ==
    /\ ret.op = "build"
    /\ IsDegraded(ret.result)
    /\ ret.raised
    /\ ret.recording_id = 2
    /\ nodeOrder = <<ada, Graph>>
    /\ \A n \in DOMAIN nodeData : nodeData[n].recording_id = 1
    /\ DOMAIN edgeData = {<<ada, Graph>>}

\* C28: queries are read-only: a call of query_knowledge_graph, whether it
\* runs through or its exception is caught, and a call of get_graph_summary
\* leave node ids, node attributes, edges and edge attributes as they were.
C28_QueriesReadOnly ==
    [][ret'.op \in {"query", "summary"} =>
        /\ nodeOrder' = nodeOrder
        /\ nodeData' = nodeData
        /\ edgeOrder' = edgeOrder
        /\ edgeData' = edgeData]_vars

\* a query ran through on a store of two builds: it matched nodes, found a
\* path and listed a neighbour of a term that is a node
C28_Witness ==
    /\ ret.op = "query"
    /\ ~ret.raised
    /\ builds = 2
    /\ Len(ret.matched) >= 2
    /\ Len(ret.all_paths) >= 1
    /\ Len(ret.all_related) >= 1

\* C29: merging is idempotent: merging the fragment of a completed build
\* into the store once more leaves the store as the first merge left it, in
\* node ids and their order, node attributes, edges and edge attributes; no
\* node and no edge is added.
C29_MergeIdempotent ==
    (ret.op = "build" /\ ~ret.raised) =>
        \A again \in {_add_to_networkx_graph(TheGraph, ret.recording_id,
                                              ret.result.graph_data)} :
            /\ again = TheGraph
            /\ Len(again.nodeOrder) = Len(nodeOrder)
            /\ Len(again.edgeOrder) = Len(edgeOrder)

\* the fragment of the second build holds three relationships for the pair
\* Ada -> Graph, which share one store edge, key-point nodes, and nodes the
\* first build had put into the store for another recording
C29_Witness ==
    /\ ret.op = "build"
    /\ ~ret.raised
    /\ builds = 2
    /\ Cardinality({i \in 1..Len(ret.result.graph_data.edges) :
                        /\ ret.result.graph_data.edges[i].source = Ada
                        /\ ret.result.graph_data.edges[i].target = Graph}) = 3
    /\ \E i \in 1..Len(ret.result.graph_data.nodes) :
            ret.result.graph_data.nodes[i].type = "KEY_POINT"
    /\ \E n \in DOMAIN nodeData : nodeData[n].recording_id # ret.recording_id

\* C30: a recording-scoped summary is closed under endpoints: in every
\* store builds lead to and for every recording id r, each edge that
\* get_graph_summary(r) counts has its source and its target among the nodes
\* that get_graph_summary(r) counts.
C30_SummaryClosedUnderEndpoints ==
    \A r \in RecordingIds :
        \A nodes \in {Range(SummaryNodes(TheGraph, r))} :
            \A e \in Range(SummaryEdges(TheGraph, r)) :
                e[1] \in nodes /\ e[2] \in nodes

-----------------------------------------------------------------------------
(* Claims on concurrent requests *)

\* the request is inside a fragment merge or inside the traversal of a query
InProgress(t) == loop.task[t].pc \in {"merge0", "merge1", "paths"}

\* the attributes the fragment gives the node id n: those of its last node
\* of that id
FragmentAttributes(entry, n) ==
    LET nodes == entry.graph_data.nodes
        i == CHOOSE i \in 1..Len(nodes) :
                /\ nodes[i].id = n
                /\ \A j \in (i + 1)..Len(nodes) : nodes[j].id # n
    IN [label |-> nodes[i].label, type |-> nodes[i].type,
        confidence |-> nodes[i].confidence, recording_id |-> entry.recording_id]

\* the merges of the log that hold the node id n
MergesOf(n) ==
    {k \in 1..Len(loop.log) : n \in FragmentNodeIds(loop.log[k].graph_data)}

\* C26: with uploads and a query in flight together, the node upserts and
\* edge inserts of one merge are not interleaved with a step of another
\* request: while a merge or a traversal is under way its request is the one
\* that runs, the store is the store the merge met plus the writes the merge
\* has made so far, and a query answers from the one store its node scan
\* met; requests take turns only at awaits, as between the two builds of
\* process_recording.  A node id that several merges bring has the
\* attributes of the merge that ran last.
C26_MergeAndTraversalAtomic ==
    /\ \A t \in Tasks : InProgress(t) => loop.running = t
    /\ \A t \in Uploaders :
        Merging(t) =>
            \A task \in {loop.task[t]} :
                TheGraph =
                    AddEdges(AddNodes(task.base, Prefix(task.graph_data.nodes, task.nodes),
                                      task.recording_id),
                             Prefix(task.graph_data.edges, task.edges), task.recording_id)
    /\ \A task \in {loop.task[Asker]} :
        /\ task.pc = "paths" => TheGraph = task.snap
        /\ (task.pc = "done" /\ ~task.raised) =>
            task.result =
                query_knowledge_graph(task.snap,
                                      _extract_entities(task.q.nlp, task.q.entity_reply),
                                      None).result
    /\ loop.running = "nobody" =>
        \A n \in DOMAIN nodeData :
            /\ MergesOf(n) # {}
            /\ nodeData[n] = FragmentAttributes(loop.log[SetMax(MergesOf(n))], n)

\* the merge of the second upload ran between the two builds of the first,
\* and the query between the builds of the second; both uploads bring the
\* node "Ada", which has the attributes of the last merge
C26_Witness ==
    /\ Len(loop.log) = 4
    /\ [k \in 1..4 |-> loop.log[k].task] = <<"upload1", "upload2", "upload1", "upload2">>
    /\ [k \in 1..4 |-> loop.log[k].recording_id] = <<0, 0, 1, 2>>
    /\ MergesOf(Ada) = 1..4
    /\ loop.log[3].graph_data.nodes # loop.log[4].graph_data.nodes
    /\ nodeData[Ada].recording_id = 2
    /\ loop.task[Asker].pc = "done"
    /\ ~loop.task[Asker].raised
    /\ Len(loop.task[Asker].snap.nodeOrder) < Len(nodeOrder)
    /\ Len(loop.task[Asker].snap.nodeOrder) > 0

=============================================================================
